---- MODULE Spec2Model ----
(***************************************************************************)
(* Model of the capability matching and workflow orchestration core of the *)
(* intent-orchestrator-platform backend:                                   *)
(*   backend/workflow/engines/workflow_state.py     (WorkflowState)        *)
(*   backend/workflow/engines/langgraph_orchestrator.py (orchestrator)     *)
(*   backend/workflow/templates/workflow_templates.py (templates)          *)
(*   backend/mcp/matchers/capability_matcher.py      (matcher)             *)
(*   backend/mcp/registry/resource_registry.py       (registry)            *)
(*                                                                         *)
(* Numbers: confidences, success rates, loads and risk scores are in       *)
(* hundredths (0.85 is 85), costs in cents, times in milliseconds.         *)
(* Component scores of the matcher are in units of 1/ScoreScale, the       *)
(* match_score in units of 1/(ScoreScale * 1000).                          *)
(***************************************************************************)
EXTENDS Integers, Sequences, FiniteSets, TLC

VARIABLES
    ws,               \* the WorkflowState object (of the one workflow)
    last_fail,        \* arguments of the fail_step call, when that was the last call
    registry,         \* ResourceRegistry: agents, capability_index, performance_history
    now,              \* the clock datetime.utcnow() reads, in seconds
    reg_call,         \* the last call made on the registry, and what it returned
    index_order,      \* capability type -> the order its index set iterates in
    templates,        \* WorkflowTemplateManager.templates: name -> template
    active_workflows, \* LangGraphOrchestrator.active_workflows (its keys)
    graph,            \* LangGraphOrchestrator.workflow_graphs[workflow_id]
    exec,             \* position of execute_workflow and what it returned
    superstep,        \* nodes of the running graph step: node -> phase
    node_runs,        \* node -> what each of its executions saw and did
    agg_seen          \* per run of the aggregate node: step nodes finished

stateVars == <<ws, last_fail>>
regVars   == <<registry, now, reg_call, index_order>>
orchVars  == <<templates, active_workflows, graph, exec, superstep, node_runs, agg_seen>>
vars      == <<ws, last_fail, registry, now, reg_call, index_order, templates,
               active_workflows, graph, exec, superstep, node_runs, agg_seen>>

-----------------------------------------------------------------------------
(* Generic helpers *)

\* dict[k] = v on a Python dict modelled as a function
Put(f, k, v) == [x \in (DOMAIN f) \cup {k} |-> IF x = k THEN v ELSE f[x]]

EmptyMap == [x \in {} |-> x]

\* list.append(x) unless x is in the list
AppendNew(s, x) == IF \E i \in 1..Len(s) : s[i] = x THEN s ELSE Append(s, x)

Range(s) == {s[i] : i \in 1..Len(s)}

Max2(a, b) == IF a >= b THEN a ELSE b
Min2(a, b) == IF a <= b THEN a ELSE b

-----------------------------------------------------------------------------
(* WorkflowState: backend/workflow/engines/workflow_state.py *)

\* WorkflowStep.max_retries default
DefaultMaxRetries == 3

\* An Optional value is a sequence of length 0 (None) or 1
None == << >>
Some(x) == <<x>>

\* @dataclass WorkflowStep
WorkflowStep(step_id, agent_id, capability_type, dependencies, max_retries) ==
    [step_id         |-> step_id,
     agent_id        |-> agent_id,
     capability_type |-> capability_type,
     status          |-> "pending",
     dependencies    |-> dependencies,
     result          |-> None,
     started_at      |-> FALSE,
     retry_count     |-> 0,
     max_retries     |-> max_retries]

\* WorkflowState.__init__
NewWorkflowState(intent_type) ==
    [intent_type     |-> intent_type,
     status          |-> "pending",
     steps           |-> EmptyMap,
     step_order      |-> << >>,
     selected_agents |-> EmptyMap,
     agent_results   |-> EmptyMap,
     decisions_made  |-> << >>,
     risk_score      |-> 0,
     errors          |-> << >>,
     agent_call_count |-> 0,
     retry_metric    |-> 0]

\* WorkflowState.add_step
add_step(w, step) ==
    [w EXCEPT !.steps = Put(w.steps, step.step_id, step),
              !.step_order = AppendNew(w.step_order, step.step_id)]

\* WorkflowState.start_workflow
start_workflow(w) == [w EXCEPT !.status = "running"]

\* WorkflowState.complete_workflow
complete_workflow(w) == [w EXCEPT !.status = "completed"]

\* A plausible slip in fail_workflow: the error is recorded, the status kept
fail_workflow_keeps_status(w, error) ==
    [w EXCEPT !.errors = Append(w.errors, <<"workflow_failed", error>>)]

\* WorkflowState.fail_workflow
fail_workflow(w, error) ==
    [w EXCEPT !.status = "failed",
              !.errors = Append(w.errors, <<"workflow_failed", error>>)]

\* WorkflowState.start_step: no check of the step's status or dependencies
start_step(w, step_id) ==
    IF step_id \notin DOMAIN w.steps THEN w
    ELSE [w EXCEPT !.steps[step_id].status = "running",
                   !.steps[step_id].started_at = TRUE]

\* WorkflowState.complete_step
complete_step(w, step_id, result) ==
    IF step_id \notin DOMAIN w.steps THEN w
    ELSE [w EXCEPT !.steps[step_id].status = "completed",
                   !.steps[step_id].result = Some(result),
                   !.agent_results = Put(w.agent_results, result.agent_id, result),
                   !.agent_call_count = w.agent_call_count + 1]

\* A plausible slip in fail_step: retry while retry_count < max_retries
fail_step_strict(w, step_id, error, should_retry) ==
    IF step_id \notin DOMAIN w.steps THEN w
    ELSE LET n == w.steps[step_id].retry_count + 1 IN
         IF should_retry /\ n < w.steps[step_id].max_retries
         THEN [w EXCEPT !.steps[step_id].retry_count = n,
                        !.steps[step_id].status = "pending",
                        !.steps[step_id].started_at = FALSE,
                        !.retry_metric = w.retry_metric + 1]
         ELSE [w EXCEPT !.steps[step_id].retry_count = n,
                        !.steps[step_id].status = "failed",
                        !.errors = Append(w.errors, <<"step_failed", step_id>>)]

\* A plausible slip in fail_step: max_retries is not consulted
fail_step_unbounded(w, step_id, error, should_retry) ==
    IF step_id \notin DOMAIN w.steps THEN w
    ELSE LET n == w.steps[step_id].retry_count + 1 IN
         IF should_retry
         THEN [w EXCEPT !.steps[step_id].retry_count = n,
                        !.steps[step_id].status = "pending",
                        !.steps[step_id].started_at = FALSE,
                        !.retry_metric = w.retry_metric + 1]
         ELSE [w EXCEPT !.steps[step_id].retry_count = n,
                        !.steps[step_id].status = "failed",
                        !.errors = Append(w.errors, <<"step_failed", step_id>>)]

\* WorkflowState.fail_step
fail_step(w, step_id, error, should_retry) ==
    IF step_id \notin DOMAIN w.steps THEN w
    ELSE LET n == w.steps[step_id].retry_count + 1 IN
         IF should_retry /\ n <= w.steps[step_id].max_retries
         THEN [w EXCEPT !.steps[step_id].retry_count = n,
                        !.steps[step_id].status = "pending",
                        !.steps[step_id].started_at = FALSE,
                        !.retry_metric = w.retry_metric + 1]
         ELSE [w EXCEPT !.steps[step_id].retry_count = n,
                        !.steps[step_id].status = "failed",
                        !.errors = Append(w.errors, <<"step_failed", step_id>>)]

\* the test of get_next_steps: dependencies that are steps are all completed
dependencies_met(w, step_id) ==
    \A dep_id \in w.steps[step_id].dependencies :
        dep_id \in DOMAIN w.steps => w.steps[dep_id].status = "completed"

\* WorkflowState.get_next_steps, in step_order
RECURSIVE ready_from(_, _)
ready_from(w, i) ==
    IF i > Len(w.step_order) THEN << >>
    ELSE LET step_id == w.step_order[i] IN
         IF w.steps[step_id].status = "pending" /\ dependencies_met(w, step_id)
         THEN <<step_id>> \o ready_from(w, i + 1)
         ELSE ready_from(w, i + 1)

\* a get_next_steps that does not look at the dependencies' status
get_next_steps_any_status(w) ==
    SelectSeq(w.step_order, LAMBDA s : w.steps[s].status = "pending")

get_next_steps(w) == ready_from(w, 1)

\* list.remove(x): the list without the first x
Remove(q, x) ==
    LET i == CHOOSE k \in 1..Len(q) : q[k] = x /\ \A j \in 1..(k - 1) : q[j] # x
    IN  SubSeq(q, 1, i - 1) \o SubSeq(q, i + 1, Len(q))

\* get_parallel_steps: one pass of the for loop over remaining_steps.copy(),
\* giving <<remaining_steps, current_group>>
RECURSIVE peel_from(_, _, _, _, _)
peel_from(w, copy, i, remaining_steps, current_group) ==
    IF i > Len(copy) THEN <<remaining_steps, current_group>>
    ELSE LET step_id == copy[i]
             has_pending_deps ==
                 \E dep_id \in w.steps[step_id].dependencies :
                     dep_id \in Range(remaining_steps)
         IN  IF ~has_pending_deps
             THEN peel_from(w, copy, i + 1, Remove(remaining_steps, step_id),
                            Append(current_group, step_id))
             ELSE peel_from(w, copy, i + 1, remaining_steps, current_group)

\* get_parallel_steps: the while loop, left when a pass adds no group
RECURSIVE group_from(_, _, _)
group_from(w, remaining_steps, parallel_groups) ==
    IF remaining_steps = << >> THEN parallel_groups
    ELSE LET pass == peel_from(w, remaining_steps, 1, remaining_steps, << >>)
         IN  IF pass[2] # << >>
             THEN group_from(w, pass[1], Append(parallel_groups, pass[2]))
             ELSE parallel_groups

\* WorkflowState.get_parallel_steps
get_parallel_steps(w) == group_from(w, get_next_steps(w), << >>)

\* the counts of WorkflowState.get_aggregated_results
steps_completed(w) == Cardinality({s \in DOMAIN w.steps : w.steps[s].status = "completed"})
steps_failed(w) == Cardinality({s \in DOMAIN w.steps : w.steps[s].status = "failed"})

\* risk scores are hundredths: 0.8 is 80
RiskUnit == 100

\* WorkflowState._generate_fraud_recommendation: the 'action'
generate_fraud_recommendation(w) ==
    IF w.risk_score * 10 > 8 * RiskUnit THEN "block_transaction"
    ELSE IF w.risk_score * 10 > 6 * RiskUnit THEN "manual_review"
    ELSE "allow_transaction"

\* WorkflowState._generate_final_recommendation: the 'action'; the action of
\* a customer_verification workflow depends on the agents' confidences only
generate_final_recommendation(w) ==
    IF w.intent_type = "fraud_detection" THEN generate_fraud_recommendation(w)
    ELSE IF w.intent_type = "customer_verification" THEN "by_overall_confidence"
    ELSE "review_results"

\* WorkflowState.add_decision: the decision record it appends (the timestamp
\* left out)
add_decision(w, decision_point, decision, reasoning, confidence) ==
    [w EXCEPT !.decisions_made =
        Append(@, [decision_point |-> decision_point,
                   decision       |-> decision,
                   reasoning      |-> reasoning,
                   confidence     |-> confidence])]

\* WorkflowState.get_aggregated_results: the fields the callers read
get_aggregated_results(w) ==
    [status               |-> w.status,
     risk_score           |-> w.risk_score,
     steps_completed      |-> steps_completed(w),
     steps_failed         |-> steps_failed(w),
     agent_results        |-> DOMAIN w.agent_results,
     final_recommendation |-> generate_final_recommendation(w)]

-----------------------------------------------------------------------------
(* ResourceRegistry: backend/mcp/registry/resource_registry.py *)

\* enum CapabilityType
CapabilityTypes ==
    {"fraud_detection", "transaction_analysis", "device_verification",
     "location_tracking", "kyc_verification", "sim_swap_detection",
     "scam_detection", "network_analysis", "data_enrichment", "risk_scoring"}

\* dict.get(key, default) on a metrics dict
Get(f, k, default) == IF k \in DOMAIN f THEN f[k] ELSE default

\* Python truthiness of an Optional number: not None and not 0
Truthy(opt) == Len(opt) = 1 /\ opt[1] # 0

\* @dataclass AgentCapability
AgentCapability(capability_type, confidence_level, response_time_sla, data_requirements, cost_per_request) ==
    [capability_type   |-> capability_type,
     confidence_level  |-> confidence_level,
     response_time_sla |-> response_time_sla,
     data_requirements |-> data_requirements,
     cost_per_request  |-> cost_per_request]

\* @dataclass AgentResource
AgentResource(agent_id, capabilities, status, performance_metrics) ==
    [agent_id            |-> agent_id,
     capabilities        |-> capabilities,
     status              |-> status,
     last_heartbeat      |-> 0,
     performance_metrics |-> performance_metrics]

\* enum AgentStatus
AgentStatuses == {"available", "busy", "offline", "error", "maintenance"}

\* seconds without a heartbeat after which check_agent_health gives up on an
\* agent (the constructor's heartbeat_timeout)
HeartbeatTimeout == 1

\* entries heartbeat keeps in an agent's performance history
HistoryLimit == 100

\* ResourceRegistry.__init__
NewRegistry ==
    [agents              |-> EmptyMap,
     capability_index    |-> [c \in CapabilityTypes |-> {}],
     heartbeat_timeout   |-> HeartbeatTimeout,
     performance_history |-> EmptyMap]

\* del d[k]
Without(f, k) == [x \in (DOMAIN f) \ {k} |-> f[x]]

HasCapability(agent, c) ==
    \E i \in 1..Len(agent.capabilities) : agent.capabilities[i].capability_type = c

\* ResourceRegistry.register_agent at time t: no check of the resource
register_agent(reg, agent, t) ==
    [reg EXCEPT
        !.agents = Put(reg.agents, agent.agent_id, [agent EXCEPT !.last_heartbeat = t]),
        !.capability_index =
            [c \in CapabilityTypes |->
                IF HasCapability(agent, c)
                THEN reg.capability_index[c] \cup {agent.agent_id}
                ELSE reg.capability_index[c]],
        !.performance_history = Put(reg.performance_history, agent.agent_id, << >>)]

\* what register_agent returns (nothing in its try block raises)
register_agent_returns(reg, agent) == TRUE

\* ResourceRegistry.unregister_agent: the index sets of the capabilities the
\* stored resource lists are cleaned
unregister_agent(reg, agent_id) ==
    IF agent_id \notin DOMAIN reg.agents THEN reg
    ELSE [reg EXCEPT
             !.agents = Without(reg.agents, agent_id),
             !.capability_index =
                 [c \in CapabilityTypes |->
                     IF HasCapability(reg.agents[agent_id], c)
                     THEN reg.capability_index[c] \ {agent_id}
                     ELSE reg.capability_index[c]],
             !.performance_history = Without(reg.performance_history, agent_id)]

unregister_agent_returns(reg, agent_id) == agent_id \in DOMAIN reg.agents

\* ResourceRegistry.update_agent_status
update_agent_status(reg, agent_id, status) ==
    IF agent_id \notin DOMAIN reg.agents THEN reg
    ELSE [reg EXCEPT !.agents[agent_id].status = status]

update_agent_status_returns(reg, agent_id) == agent_id \in DOMAIN reg.agents

\* the first n elements of a list: q[:n]
FirstN(q, n) == IF Len(q) <= n THEN q ELSE SubSeq(q, 1, n)

\* the last n elements of a list: q[-n:]
LastN(q, n) == IF Len(q) <= n THEN q ELSE SubSeq(q, Len(q) - n + 1, Len(q))

\* dict.update
Update(f, g) == [x \in (DOMAIN f) \cup (DOMAIN g) |-> IF x \in DOMAIN g THEN g[x] ELSE f[x]]

\* a heartbeat that sets the agent AVAILABLE whatever its status was
heartbeat_sets_available(reg, agent_id, performance_metrics, t) ==
    IF agent_id \notin DOMAIN reg.agents THEN reg
    ELSE [reg EXCEPT !.agents[agent_id].last_heartbeat = t,
                     !.agents[agent_id].status = "available"]

\* ResourceRegistry.heartbeat at time t; performance_metrics is None or a map
heartbeat(reg, agent_id, performance_metrics, t) ==
    IF agent_id \notin DOMAIN reg.agents THEN reg
    ELSE LET given == performance_metrics # None /\ DOMAIN performance_metrics[1] # {}
             agent == reg.agents[agent_id]
             history == Append(reg.performance_history[agent_id],
                               [timestamp |-> t, metrics |-> performance_metrics[1]])
         IN  [reg EXCEPT
                 !.agents[agent_id] =
                     [agent EXCEPT
                         !.last_heartbeat = t,
                         !.performance_metrics =
                             IF given THEN Update(agent.performance_metrics,
                                                  performance_metrics[1])
                             ELSE agent.performance_metrics,
                         !.status = IF agent.status = "offline" THEN "available"
                                    ELSE agent.status],
                 !.performance_history[agent_id] =
                     IF given THEN LastN(history, HistoryLimit)
                     ELSE reg.performance_history[agent_id]]

heartbeat_returns(reg, agent_id) == agent_id \in DOMAIN reg.agents

\* check_agent_health: is_healthy of an agent at time t
is_healthy(reg, agent, t) == agent.last_heartbeat > t - reg.heartbeat_timeout

\* check_agent_health: the 'status' it reports for an agent at time t
health_status(reg, agent, t) ==
    IF agent.status = "offline" THEN "offline"
    ELSE IF is_healthy(reg, agent, t) THEN "healthy"
    ELSE "unhealthy"

\* a check_agent_health that only reports
check_agent_health_reports_only(reg, t) == reg

\* ResourceRegistry.check_agent_health at time t: the registry it leaves
check_agent_health(reg, t) ==
    [reg EXCEPT !.agents =
        [a \in DOMAIN reg.agents |->
            IF health_status(reg, reg.agents[a], t) = "unhealthy"
            THEN [reg.agents[a] EXCEPT !.status = "offline"]
            ELSE reg.agents[a]]]

\* ResourceRegistry.check_agent_health at time t: the health_report
health_report(reg, t) ==
    LET status == [a \in DOMAIN reg.agents |-> health_status(reg, reg.agents[a], t)]
        Count(v) == Cardinality({a \in DOMAIN status : status[a] = v})
    IN  [total_agents     |-> Cardinality(DOMAIN reg.agents),
         healthy_agents   |-> Count("healthy"),
         unhealthy_agents |-> Count("unhealthy"),
         offline_agents   |-> Count("offline"),
         agents           |-> status]

\* ResourceRegistry.get_agent: None when the id is unknown
\* what a call returns that raised KeyError
KeyError == [raised |-> "KeyError"]

\* ResourceRegistry.get_capability_summary: self.agents[agent_id] raises
\* KeyError for an id of an index set that is no key of agents
get_capability_summary(reg) ==
    IF \E c \in CapabilityTypes : \E agent_id \in reg.capability_index[c] :
           agent_id \notin DOMAIN reg.agents
    THEN KeyError
    ELSE [c \in CapabilityTypes |->
             Cardinality({agent_id \in reg.capability_index[c] :
                             reg.agents[agent_id].status = "available"})]

\* entries of get_performance_metrics' recent history
RecentWindow == 10

\* sum(values) and len(values) of a metric over the entries that carry it
RECURSIVE metric_sum(_, _, _)
metric_sum(entries, key, i) ==
    IF i > Len(entries) THEN <<0, 0>>
    ELSE LET rest == metric_sum(entries, key, i + 1)
         IN  IF key \in DOMAIN entries[i].metrics
             THEN <<rest[1] + entries[i].metrics[key], rest[2] + 1>>
             ELSE rest

\* ResourceRegistry.get_performance_metrics; an average is <<sum, count>>
get_performance_metrics(reg, agent_id) ==
    IF agent_id \notin DOMAIN reg.agents THEN EmptyMap
    ELSE LET history == Get(reg.performance_history, agent_id, << >>)
             recent_history == LastN(history, RecentWindow)
             metric_keys == UNION {DOMAIN recent_history[i].metrics :
                                      i \in 1..Len(recent_history)}
         IN  [agent_id        |-> agent_id,
              current_metrics |-> reg.agents[agent_id].performance_metrics,
              recent_averages |-> [key \in metric_keys |->
                                      metric_sum(recent_history, key, 1)],
              history_entries |-> Len(history)]

\* ResourceRegistry.export_registry_state at time t: the registry it leaves;
\* get_capability_summary runs before check_agent_health
export_registry_state(reg, t) ==
    IF get_capability_summary(reg) = KeyError THEN reg ELSE check_agent_health(reg, t)

\* ResourceRegistry.export_registry_state at time t: what it returns
export_registry_state_returns(reg, t) ==
    IF get_capability_summary(reg) = KeyError THEN KeyError
    ELSE [agents             |-> DOMAIN reg.agents,
          capability_summary |-> get_capability_summary(reg),
          health_report      |-> health_report(reg, t)]

get_agent(reg, agent_id) ==
    IF agent_id \in DOMAIN reg.agents THEN Some(reg.agents[agent_id]) ELSE None

\* the first capability of the agent with this type (the loops that break at
\* the first match); None when the agent has none
RECURSIVE first_capability(_, _, _)
first_capability(capabilities, capability_type, i) ==
    IF i > Len(capabilities) THEN None
    ELSE IF capabilities[i].capability_type = capability_type
         THEN Some(capabilities[i])
         ELSE first_capability(capabilities, capability_type, i + 1)

\* ResourceRegistry._matches_requirements (requirements is a non-empty dict)
matches_requirements(capability, requirements) ==
    /\ ~(capability.confidence_level < requirements.min_confidence)
    /\ ~(Truthy(requirements.max_response_time)
           /\ capability.response_time_sla > requirements.max_response_time[1])
    /\ ~(Truthy(requirements.max_cost)
           /\ capability.cost_per_request > requirements.max_cost[1])
    /\ ~(requirements.required_data # {}
           /\ ~(requirements.required_data \subseteq capability.data_requirements))

\* ResourceRegistry.find_agents_by_capability; iteration is the order in which
\* the Python set capability_index[capability_type] yields its ids
RECURSIVE find_from(_, _, _, _, _)
find_from(reg, capability_type, requirements, iteration, i) ==
    IF i > Len(iteration) THEN << >>
    ELSE LET agent_id == iteration[i]
             rest == find_from(reg, capability_type, requirements, iteration, i + 1)
         IN  IF agent_id \notin DOMAIN reg.agents
                \/ reg.agents[agent_id].status \notin {"available", "busy"}
             THEN rest
             ELSE LET cap == first_capability(reg.agents[agent_id].capabilities,
                                              capability_type, 1)
                  IN  IF cap # None /\ matches_requirements(cap[1], requirements)
                      THEN <<reg.agents[agent_id]>> \o rest
                      ELSE rest

find_agents_by_capability(reg, capability_type, requirements, iteration) ==
    find_from(reg, capability_type, requirements, iteration, 1)

\* the orders in which a set can be iterated
Orders(S) ==
    {q \in [1..Cardinality(S) -> S] : \A i, j \in DOMAIN q : q[i] = q[j] => i = j}

\* the capability types whose index set can be iterated in several orders
SharedCapabilities(reg) ==
    {c \in CapabilityTypes : Cardinality(reg.capability_index[c]) > 1}

\* one iteration order for each capability index set
IterationOrders(reg) ==
    LET shared == SharedCapabilities(reg)
        choices == {o \in [shared -> UNION {Orders(reg.capability_index[c]) : c \in shared}] :
                       \A c \in shared : o[c] \in Orders(reg.capability_index[c])}
    IN  {[c \in CapabilityTypes |->
             IF c \in shared THEN o[c]
             ELSE CHOOSE q \in Orders(reg.capability_index[c]) : TRUE] : o \in choices}

\* the iteration orders after a call: a set that was not modified iterates as
\* before, a modified one in any order
OrdersAfter(reg, order, reg_after) ==
    {o \in IterationOrders(reg_after) :
        \A c \in CapabilityTypes :
            reg_after.capability_index[c] = reg.capability_index[c] => o[c] = order[c]}

-----------------------------------------------------------------------------
(* CapabilityMatcher: backend/mcp/matchers/capability_matcher.py *)

\* one unit of a component score is 1/ScoreScale
ScoreScale == 10000

\* @dataclass CapabilityRequirement
CapabilityRequirement(capability_type, min_confidence, max_response_time, max_cost, required_data, preferred_agents, excluded_agents, priority) ==
    [capability_type   |-> capability_type,
     min_confidence    |-> min_confidence,
     max_response_time |-> max_response_time,
     max_cost          |-> max_cost,
     required_data     |-> required_data,
     preferred_agents  |-> preferred_agents,
     excluded_agents   |-> excluded_agents,
     priority          |-> priority]

\* CapabilityMatcher._calculate_confidence_score
calculate_confidence_score(agent_confidence, min_required) ==
    IF agent_confidence < min_required THEN 0
    ELSE Min2((agent_confidence * ScoreScale) \div Max2(min_required, 10), ScoreScale)

\* CapabilityMatcher._calculate_performance_score
calculate_performance_score(agent, capability, requirement) ==
    LET max_rt == requirement.max_response_time
        sla_part ==
            IF ~Truthy(max_rt) THEN 0
            ELSE IF capability.response_time_sla <= max_rt[1]
                 THEN ((max_rt[1] - capability.response_time_sla) * 3 * ScoreScale)
                          \div (10 * max_rt[1])
                 ELSE 0 - (2 * ScoreScale) \div 10
        success_rate == Get(agent.performance_metrics, "success_rate", 50)
        history_part == ((success_rate - 50) * 3 * ScoreScale) \div 1000
        avg_response == Get(agent.performance_metrics, "avg_response_time", 0)
        avg_part ==
            IF avg_response # 0 /\ Truthy(max_rt) /\ avg_response <= max_rt[1]
            THEN ScoreScale \div 10 ELSE 0
    IN  Max2(0, Min2(ScoreScale, ScoreScale \div 2 + sla_part + history_part + avg_part))

\* CapabilityMatcher._calculate_cost_score
calculate_cost_score(agent_cost, max_cost) ==
    IF max_cost = None \/ max_cost[1] <= 0 THEN ScoreScale
    ELSE IF agent_cost > max_cost[1] THEN 0
    ELSE IF agent_cost = 0 THEN ScoreScale
    ELSE Max2(0, ScoreScale - (agent_cost * ScoreScale) \div max_cost[1])

\* an availability score that falls with the age of the last heartbeat
calculate_availability_score_by_age(agent) ==
    IF agent.status # "available" THEN 0
    ELSE ScoreScale \div (1 + (now - agent.last_heartbeat))

\* CapabilityMatcher._calculate_availability_score
calculate_availability_score(agent) ==
    LET base == CASE agent.status = "available" -> ScoreScale
                  [] agent.status = "busy"      -> (6 * ScoreScale) \div 10
                  [] agent.status = "error"     -> ScoreScale \div 10
                  [] OTHER                      -> 0
        current_load == Get(agent.performance_metrics, "current_load", 0)
    IN  IF current_load > 80 THEN (base * 70) \div 100
        ELSE IF current_load > 50 THEN (base * 85) \div 100
        ELSE base

\* list.index(x): position from 0 of the first x
IndexOf(q, x) == (CHOOSE i \in 1..Len(q) : q[i] = x /\ \A j \in 1..(i-1) : q[j] # x) - 1

\* CapabilityMatcher._calculate_preference_score
calculate_preference_score(agent_id, preferred_agents) ==
    IF preferred_agents = << >> THEN ScoreScale \div 2
    ELSE IF agent_id \in Range(preferred_agents)
         THEN ScoreScale - (IndexOf(preferred_agents, agent_id) * ScoreScale)
                               \div (2 * Len(preferred_agents))
         ELSE (3 * ScoreScale) \div 10

\* the weighted sum and priority multiplier of _create_agent_match, in units
\* of 1/(ScoreScale * 1000): weights 0.3, 0.25, 0.2, 0.15, 0.1 and the
\* factor 1 + (priority - 1) * 0.1
weighted_match_score_priority_discount(confidence, performance, cost, availability, preference, priority) ==
    (30 * confidence + 25 * performance + 20 * cost + 15 * availability + 10 * preference)
        * (10 - (priority - 1))

weighted_match_score(confidence, performance, cost, availability, preference, priority) ==
    (30 * confidence + 25 * performance + 20 * cost + 15 * availability + 10 * preference)
        * (10 + (priority - 1))

\* CapabilityMatcher._create_agent_match: None or one AgentMatch
create_agent_match(agent, requirement) ==
    LET cap == first_capability(agent.capabilities, requirement.capability_type, 1) IN
    IF cap = None THEN None
    ELSE LET confidence   == calculate_confidence_score(cap[1].confidence_level,
                                                        requirement.min_confidence)
             performance  == calculate_performance_score(agent, cap[1], requirement)
             cost         == calculate_cost_score(cap[1].cost_per_request, requirement.max_cost)
             availability == calculate_availability_score(agent)
             preference   == calculate_preference_score(agent.agent_id,
                                                        requirement.preferred_agents)
         IN  Some([agent_id           |-> agent.agent_id,
                   capability_type    |-> requirement.capability_type,
                   match_score        |-> weighted_match_score(confidence, performance, cost,
                                              availability, preference, requirement.priority),
                   confidence_score   |-> confidence,
                   performance_score  |-> performance,
                   cost_score         |-> cost,
                   availability_score |-> availability])

\* the loop of _find_agents_for_requirement over the candidates
RECURSIVE matches_of(_, _, _)
matches_of(candidates, requirement, i) ==
    IF i > Len(candidates) THEN << >>
    ELSE create_agent_match(candidates[i], requirement)
             \o matches_of(candidates, requirement, i + 1)

\* CapabilityMatcher._find_agents_for_requirement
find_agents_for_requirement(reg, requirement, iteration) ==
    LET found == find_agents_by_capability(reg, requirement.capability_type,
                     [min_confidence    |-> requirement.min_confidence,
                      max_response_time |-> requirement.max_response_time,
                      max_cost          |-> requirement.max_cost,
                      required_data     |-> requirement.required_data],
                     iteration[requirement.capability_type])
        Allowed(agent) == agent.agent_id \notin requirement.excluded_agents
    IN  matches_of(SelectSeq(found, Allowed), requirement, 1)

\* one step of _deduplicate_matches: the dict keeps the key's first position
\* and takes the new match only when its score is strictly higher
dedup_put(kept, match) ==
    IF \E i \in 1..Len(kept) : kept[i].agent_id = match.agent_id
    THEN [i \in 1..Len(kept) |->
             IF kept[i].agent_id = match.agent_id /\ match.match_score > kept[i].match_score
             THEN match ELSE kept[i]]
    ELSE Append(kept, match)

\* CapabilityMatcher._deduplicate_matches
RECURSIVE dedup_from(_, _, _)
dedup_from(matches, i, kept) ==
    IF i > Len(matches) THEN kept
    ELSE dedup_from(matches, i + 1, dedup_put(kept, matches[i]))

deduplicate_matches(matches) == dedup_from(matches, 1, << >>)

\* insertion of m behind every element whose key is not smaller (stable)
insert_desc(sorted, m, key) ==
    LET ahead == Cardinality({i \in 1..Len(sorted) : sorted[i][key] >= m[key]})
    IN  SubSeq(sorted, 1, ahead) \o <<m>> \o SubSeq(sorted, ahead + 1, Len(sorted))

\* sorted(matches, key=..., reverse=True): descending and stable
RECURSIVE sort_from(_, _, _, _)
sort_from(matches, key, i, sorted) ==
    IF i > Len(matches) THEN sorted
    ELSE sort_from(matches, key, i + 1, insert_desc(sorted, matches[i], key))

sorted_desc(matches, key) == sort_from(matches, key, 1, << >>)

\* CapabilityMatcher._apply_strategy_filtering
apply_strategy_filtering(matches, strategy) ==
    LET Available(m) == m.availability_score > (8 * ScoreScale) \div 10
        Busy(m) == ~Available(m)
    IN  CASE strategy = "fastest_response"   -> sorted_desc(matches, "performance_score")
          [] strategy = "lowest_cost"        -> sorted_desc(matches, "cost_score")
          [] strategy = "highest_confidence" -> sorted_desc(matches, "confidence_score")
          [] strategy = "load_balanced"      ->
                 SelectSeq(matches, Available) \o SelectSeq(matches, Busy)
          [] OTHER                           -> matches

\* the loop of find_best_agents over the requirements
RECURSIVE all_matches_from(_, _, _, _)
all_matches_from(reg, requirements, iteration, i) ==
    IF i > Len(requirements) THEN << >>
    ELSE find_agents_for_requirement(reg, requirements[i], iteration)
             \o all_matches_from(reg, requirements, iteration, i + 1)

\* CapabilityMatcher.find_best_agents
find_best_agents(reg, requirements, strategy, max_agents, iteration) ==
    LET all_matches    == all_matches_from(reg, requirements, iteration, 1)
        unique_matches == deduplicate_matches(all_matches)
        sorted_matches == sorted_desc(unique_matches, "match_score")
        final_matches  == apply_strategy_filtering(sorted_matches, strategy)
    IN  SubSeq(final_matches, 1, Min2(max_agents, Len(final_matches)))

-----------------------------------------------------------------------------
(* WorkflowTemplateManager: backend/workflow/templates/workflow_templates.py *)

\* one entry of a template's 'steps' list
StepConfig(step_id, capability_type, min_confidence, max_response_time, priority) ==
    [step_id           |-> step_id,
     capability_type   |-> capability_type,
     min_confidence    |-> min_confidence,
     max_response_time |-> max_response_time,
     priority          |-> priority]

\* one entry of a template's 'decisions' list
DecisionConfig(decision_id, type, threshold) ==
    [decision_id |-> decision_id, type |-> type, threshold |-> threshold]

Template(name, intent_types, flow_type, steps, decisions) ==
    [name         |-> name,
     intent_types |-> intent_types,
     flow_type    |-> flow_type,
     steps        |-> steps,
     decisions    |-> decisions]

\* _load_default_templates: fraud_template
FraudTemplate ==
    Template("fraud_detection", {"fraud_detection"}, "parallel",
        <<StepConfig("fraud_analysis", "fraud_detection", 80, 3000, 3),
          StepConfig("device_verification", "device_verification", 60, 4000, 2),
          StepConfig("location_check", "location_tracking", 70, 3500, 2),
          StepConfig("sim_swap_check", "sim_swap_detection", 75, 2500, 2),
          StepConfig("risk_scoring", "risk_scoring", 70, 2000, 3)>>,
        <<DecisionConfig("risk_evaluation", "risk_threshold", 70)>>)

\* _load_default_templates: verification_template
VerificationTemplate ==
    Template("customer_verification", {"customer_verification"}, "sequential",
        <<StepConfig("kyc_verification", "kyc_verification", 85, 8000, 3),
          StepConfig("device_verification", "device_verification", 70, 4000, 2),
          StepConfig("location_verification", "location_tracking", 60, 3000, 1)>>,
        <<DecisionConfig("verification_quality", "confidence_threshold", 80)>>)

\* _load_default_templates: transaction_template
TransactionTemplate ==
    Template("transaction_monitoring", {"transaction_monitoring"}, "conditional",
        <<StepConfig("transaction_analysis", "transaction_analysis", 70, 3000, 3),
          StepConfig("fraud_check", "fraud_detection", 75, 2500, 3),
          StepConfig("device_check", "device_verification", 60, 2000, 2)>>,
        <<DecisionConfig("transaction_decision", "risk_threshold", 60)>>)

\* _load_default_templates: sim_swap_template
SimSwapTemplate ==
    Template("sim_swap_detection", {"sim_swap_detection"}, "parallel",
        <<StepConfig("sim_swap_analysis", "sim_swap_detection", 80, 2500, 3),
          StepConfig("device_location", "location_tracking", 70, 3000, 2),
          StepConfig("fraud_correlation", "fraud_detection", 60, 2000, 1)>>,
        << >>)

\* _load_default_templates: service_assurance_template
ServiceAssuranceTemplate ==
    Template("service_assurance", {"service_assurance"}, "sequential",
        <<StepConfig("network_analysis", "network_analysis", 70, 5000, 3),
          StepConfig("device_diagnostics", "device_verification", 60, 3000, 2),
          StepConfig("location_correlation", "location_tracking", 50, 2000, 1)>>,
        << >>)

\* self.templates after _load_default_templates, in dict order
DefaultTemplates ==
    <<FraudTemplate, VerificationTemplate, TransactionTemplate,
      SimSwapTemplate, ServiceAssuranceTemplate>>

\* WorkflowTemplateManager.get_template: None when no template has the name
get_template(tpls, template_name) ==
    LET hits == {i \in 1..Len(tpls) : tpls[i].name = template_name} IN
    IF hits = {} THEN None ELSE Some(tpls[CHOOSE i \in hits : TRUE])

\* WorkflowTemplateManager.get_template_for_intent: the first template that
\* lists the intent type, else the fraud_detection template
get_template_for_intent(tpls, intent_type) ==
    LET hits == {i \in 1..Len(tpls) : intent_type \in tpls[i].intent_types} IN
    IF hits # {}
    THEN Some(tpls[CHOOSE i \in hits : \A j \in hits : i <= j])
    ELSE get_template(tpls, "fraud_detection")

\* WorkflowTemplateManager.validate_template: the checks that make a
\* template invalid (flow type, duplicate step ids)
template_is_valid(template) ==
    /\ template.flow_type \in {"parallel", "sequential", "conditional"}
    /\ \A i, j \in 1..Len(template.steps) :
           template.steps[i].step_id = template.steps[j].step_id => i = j

\* WorkflowTemplateManager.create_custom_template: self.templates[name] = data
create_custom_template(tpls, template) ==
    IF ~template_is_valid(template) THEN tpls
    ELSE IF \E i \in 1..Len(tpls) : tpls[i].name = template.name
         THEN [i \in 1..Len(tpls) |-> IF tpls[i].name = template.name THEN template ELSE tpls[i]]
         ELSE Append(tpls, template)

-----------------------------------------------------------------------------
(* LangGraphOrchestrator: backend/workflow/engines/langgraph_orchestrator.py *)

\* max_agents passed to find_best_agents by _select_agents_for_workflow
MaxAgentsPerWorkflow == 10

\* f"step_{match.capability_type.value}"
StepIdFor(capability_type) == "step_" \o capability_type

\* the requirements _select_agents_for_workflow builds from the template steps
RECURSIVE requirements_from(_, _)
requirements_from(steps, i) ==
    IF i > Len(steps) THEN << >>
    ELSE <<CapabilityRequirement(steps[i].capability_type, steps[i].min_confidence,
                                 Some(steps[i].max_response_time), None, {}, << >>, {},
                                 steps[i].priority)>>
             \o requirements_from(steps, i + 1)

\* the loop of _select_agents_for_workflow over the matches, in their order
RECURSIVE assign_from(_, _, _)
assign_from(w, matches, i) ==
    IF i > Len(matches) THEN w
    ELSE LET capability_type == matches[i].capability_type
             selected == [w EXCEPT !.selected_agents =
                              Put(w.selected_agents, capability_type, matches[i].agent_id)]
             step == WorkflowStep(StepIdFor(capability_type), matches[i].agent_id,
                                  capability_type, {}, DefaultMaxRetries)
         IN  assign_from(add_step(selected, step), matches, i + 1)

\* LangGraphOrchestrator._select_agents_for_workflow
select_agents_for_workflow(w, template, reg, iteration) ==
    assign_from(w,
                find_best_agents(reg, requirements_from(template.steps, 1),
                                 "best_performance", MaxAgentsPerWorkflow, iteration),
                1)

\* the step_ids of the template, in template order
StepNodes(template) == [i \in 1..Len(template.steps) |-> template.steps[i].step_id]

\* LangGraphOrchestrator._add_workflow_edges: the edges between graph nodes
\* (the edge from "end" to END is the graph's finish)
workflow_edges(template) ==
    LET steps == StepNodes(template)
        flow  ==
            CASE template.flow_type = "parallel" ->
                     {<<"start", "aggregate">>}
                         \cup {<<"start", steps[i]>> : i \in 1..Len(steps)}
                         \cup {<<steps[i], "aggregate">> : i \in 1..Len(steps)}
              [] template.flow_type = "sequential" ->
                     {<<"start", IF Len(steps) > 0 THEN steps[1] ELSE "aggregate">>}
                         \cup {<<steps[i], steps[i + 1]>> : i \in 1..(Len(steps) - 1)}
                         \cup (IF Len(steps) > 0 THEN {<<steps[Len(steps)], "aggregate">>} ELSE {})
              [] OTHER -> {}
    IN  flow \cup {<<"aggregate", "end">>}

\* LangGraphOrchestrator._add_workflow_edges: the conditional edges from "start"
workflow_route(template) ==
    IF template.flow_type = "conditional"
    THEN [r \in {"parallel", "sequential"} |->
             IF r = "parallel" THEN "aggregate"
             ELSE IF Len(template.steps) > 0 THEN template.steps[1].step_id ELSE "aggregate"]
    ELSE EmptyMap

\* LangGraphOrchestrator._build_workflow_graph
build_workflow_graph(template) ==
    [nodes     |-> {"start", "aggregate", "end"}
                       \cup Range(StepNodes(template))
                       \cup {template.decisions[i].decision_id : i \in 1..Len(template.decisions)},
     edges     |-> workflow_edges(template),
     route     |-> workflow_route(template),
     steps     |-> template.steps,
     decisions |-> template.decisions,
     flow_type |-> template.flow_type]

NoGraph ==
    [nodes |-> {}, edges |-> {}, route |-> EmptyMap, steps |-> << >>,
     decisions |-> << >>, flow_type |-> "none"]

\* the step_config closed over by the agent node of a step_id
ConfigOf(g, node) == g.steps[CHOOSE i \in 1..Len(g.steps) : g.steps[i].step_id = node]

\* the decision_config closed over by the decision node of a decision_id
DecisionOf(g, node) ==
    g.decisions[CHOOSE i \in 1..Len(g.decisions) : g.decisions[i].decision_id = node]

\* LangGraphOrchestrator._make_decision: choice, reasoning and confidence
make_decision(decision_config, w) ==
    IF decision_config.type = "risk_threshold"
    THEN IF w.risk_score > decision_config.threshold
         THEN [choice |-> "high_risk_path", reasoning |-> "exceeds threshold",
               confidence |-> 90]
         ELSE [choice |-> "normal_path", reasoning |-> "below threshold",
               confidence |-> 80]
    ELSE [choice |-> "continue", reasoning |-> "No specific decision criteria met",
          confidence |-> 50]

\* LangGraphOrchestrator._create_decision_node: decision_node
decision_node(w, decision_id, decision_config) ==
    LET decision == make_decision(decision_config, w)
    IN  add_decision(w, decision_id, decision.choice, decision.reasoning,
                     decision.confidence)

\* LangGraphOrchestrator._routing_condition
routing_condition(w) ==
    IF w.intent_type = "fraud_detection" THEN "parallel" ELSE "sequential"

\* the nodes the graph engine runs after the nodes of one graph step: the
\* targets of their edges, and for "start" the target its route chooses
Successors(g, w, done) ==
    {m \in g.nodes : \E n \in done : <<n, m>> \in g.edges}
        \cup (IF "start" \in done /\ g.route # EmptyMap
              THEN {g.route[routing_condition(w)]} ELSE {})

\* max() over a non-empty set of numbers
MaxOf(S) == CHOOSE x \in S : \A y \in S : y <= x

\* LangGraphOrchestrator._aggregate_results_node
aggregate_results_node(w) ==
    LET risk_scores == {w.agent_results[a].risk_score :
                           a \in {b \in DOMAIN w.agent_results :
                                     w.agent_results[b].capability_type = "fraud_detection"}}
    IN  IF w.intent_type = "fraud_detection" /\ risk_scores # {}
        THEN [w EXCEPT !.risk_score = MaxOf(risk_scores)]
        ELSE w

-----------------------------------------------------------------------------
(* Direct use of a WorkflowState: a caller adds steps and then calls        *)
(* start_step, complete_step and fail_step in any order.                   *)

\* largest max_retries a caller gives a step
MaxRetries == 2
\* complete_step calls explored (agent_call_count grows with each)
MaxAgentCalls == 1
\* fail_step calls explored (each adds to the retry metric or to errors):
\* enough to use up the retries of one step
MaxFailCalls == MaxRetries + 1
\* the max_retries a caller gives a step: none, or the most explored
RetryChoices == {0, MaxRetries}

StepIds == {"step_a", "step_b"}
UnknownStep == "step_zz"
CallIds == StepIds \cup {UnknownStep}

\* the dependency lists a caller gives: step_b may depend on step_a and on
\* an id that names no step, step_a on step_b (a cycle when both do)
DepChoices(step_id) ==
    IF step_id = "step_a" THEN {{}, {"step_b"}} ELSE SUBSET {"step_a", UnknownStep}

\* @dataclass AgentResult, with the one payload field the orchestrator reads
AgentResult(agent_id, capability_type, risk_score) ==
    [agent_id        |-> agent_id,
     capability_type |-> capability_type,
     status          |-> "completed",
     risk_score      |-> risk_score]

NoCall == [step_id |-> "none", should_retry |-> FALSE]

\* no call made on the registry yet
NoRegCall == [op |-> "none"]

\* LangGraphOrchestrator.__init__, and no call made yet
IdleOrch ==
    /\ templates = DefaultTemplates
    /\ active_workflows = {}
    /\ graph = NoGraph
    /\ exec = [create |-> "none", intent_type |-> "none", template_name |-> None,
               pc |-> "idle", workflow_id |-> "none", outcome |-> "none",
               escaped |-> FALSE, result |-> None,
               cancel |-> "none", cancel_pc |-> "none", at_cancel |-> None]
    /\ superstep = EmptyMap
    /\ node_runs = [started |-> {}, finished |-> {}, succeeded |-> {}, raised |-> {},
                    fraud_risks |-> {}]
    /\ agg_seen = << >>

InitState ==
    /\ ws = NewWorkflowState("fraud_detection")
    /\ last_fail = NoCall
    /\ registry = NewRegistry
    /\ now = 0
    /\ reg_call = NoRegCall
    /\ index_order \in IterationOrders(registry)
    /\ IdleOrch

\* caller: state.add_step(WorkflowStep(..., dependencies=deps, max_retries=m))
AddStep(step_id, deps, m) ==
    /\ step_id \notin DOMAIN ws.steps
    /\ ws' = add_step(ws, WorkflowStep(step_id, "agent-1", "fraud_detection", deps, m))
    /\ last_fail' = NoCall
    /\ UNCHANGED <<regVars, orchVars>>

\* caller: state.start_step(step_id)
StartStep(step_id) ==
    /\ ws' = start_step(ws, step_id)
    /\ last_fail' = NoCall
    /\ UNCHANGED <<regVars, orchVars>>

\* caller: state.complete_step(step_id, result)
CompleteStep(step_id) ==
    /\ ws.agent_call_count < MaxAgentCalls
    /\ ws' = complete_step(ws, step_id, AgentResult("agent-1", "fraud_detection", 90))
    /\ last_fail' = NoCall
    /\ UNCHANGED <<regVars, orchVars>>

\* caller: state.fail_step(step_id, error, should_retry)
FailStep(step_id, should_retry) ==
    /\ ws.retry_metric + Len(ws.errors) < MaxFailCalls
    /\ ws' = fail_step(ws, step_id, "error", should_retry)
    /\ last_fail' = [step_id |-> step_id, should_retry |-> should_retry]
    /\ UNCHANGED <<regVars, orchVars>>

NextState ==
    \/ \E step_id \in StepIds :
         \E deps \in DepChoices(step_id), m \in RetryChoices :
             AddStep(step_id, deps, m)
    \/ \E step_id \in CallIds : StartStep(step_id)
    \/ \E step_id \in CallIds : CompleteStep(step_id)
    \/ \E step_id \in CallIds, should_retry \in BOOLEAN : FailStep(step_id, should_retry)

SpecState == InitState /\ [][NextState]_vars

-----------------------------------------------------------------------------
(* The orchestrator at work: a registry, one create_workflow and one        *)
(* execute_workflow call, the graph engine running the nodes in graph steps *)
(* (the nodes of one step run concurrently, interleaved at their awaits).   *)

\* performance_metrics of the mock agents
MockMetrics == [success_rate |-> 95, avg_response_time |-> 2000, requests_processed |-> 100]

\* ResourceRegistry.create_mock_agents: the mock_agents list
MockAgents ==
    <<AgentResource("fraud-detector-001",
          <<AgentCapability("fraud_detection", 95, 2000, {"customer_id", "transaction_data"}, 5),
            AgentCapability("risk_scoring", 90, 1500,
                            {"customer_profile", "transaction_history"}, 3)>>,
          "available", MockMetrics),
      AgentResource("device-tracker-001",
          <<AgentCapability("location_tracking", 85, 3000, {"device_id", "phone_number"}, 2),
            AgentCapability("device_verification", 80, 2500, {"device_id"}, 1)>>,
          "available", MockMetrics),
      AgentResource("kyc-validator-001",
          <<AgentCapability("kyc_verification", 92, 5000,
                            {"customer_id", "identity_documents"}, 10)>>,
          "available", MockMetrics),
      AgentResource("sim-swap-detector-001",
          <<AgentCapability("sim_swap_detection", 88, 2000, {"phone_number", "customer_id"}, 3)>>,
          "available", MockMetrics),
      AgentResource("scam-analyzer-001",
          <<AgentCapability("scam_detection", 87, 3500, {"call_data", "message_data"}, 4)>>,
          "available", MockMetrics)>>

\* an agent that offers one capability
DedicatedAgent(agent_id, capability_type, confidence_level, response_time_sla, cost) ==
    AgentResource(agent_id,
        <<AgentCapability(capability_type, confidence_level, response_time_sla, {}, cost)>>,
        "available", MockMetrics)

\* one agent for each capability the templates ask for
DedicatedAgents ==
    <<DedicatedAgent("fraud-agent", "fraud_detection", 90, 2000, 5),
      DedicatedAgent("risk-agent", "risk_scoring", 85, 1500, 3),
      DedicatedAgent("device-agent", "device_verification", 65, 2000, 1),
      DedicatedAgent("location-agent", "location_tracking", 80, 3000, 2),
      DedicatedAgent("sim-agent", "sim_swap_detection", 88, 2000, 3),
      DedicatedAgent("kyc-agent", "kyc_verification", 92, 5000, 10),
      DedicatedAgent("txn-agent", "transaction_analysis", 80, 2500, 4)>>

\* two agents that offer fraud_detection, the second one slower
RivalAgents ==
    <<DedicatedAgent("fraud-agent", "fraud_detection", 90, 2000, 5),
      DedicatedAgent("fraud-agent-b", "fraud_detection", 85, 2400, 5)>>

\* register_agent called for each agent of a list
RECURSIVE register_all(_, _, _)
register_all(reg, list, i) ==
    IF i > Len(list) THEN reg
    ELSE register_all(register_agent(reg, list[i], 0), list, i + 1)

\* the registries the orchestrator is given
RegistryScenarios ==
    {NewRegistry,
     register_all(NewRegistry, MockAgents, 1),
     register_all(NewRegistry, DedicatedAgents, 1),
     register_all(NewRegistry, RivalAgents, 1)}

\* custom templates whose step_ids are the ids create_workflow gives its steps
AlignedParallel ==
    Template("aligned_parallel", {"fraud_detection"}, "parallel",
        <<StepConfig(StepIdFor("fraud_detection"), "fraud_detection", 80, 3000, 3),
          StepConfig(StepIdFor("risk_scoring"), "risk_scoring", 70, 2000, 3),
          StepConfig(StepIdFor("device_verification"), "device_verification", 60, 4000, 2)>>,
        << >>)

AlignedSequential ==
    Template("aligned_sequential", {"customer_verification"}, "sequential",
        <<StepConfig(StepIdFor("kyc_verification"), "kyc_verification", 85, 8000, 3),
          StepConfig(StepIdFor("device_verification"), "device_verification", 60, 4000, 2),
          StepConfig(StepIdFor("location_tracking"), "location_tracking", 60, 3000, 1)>>,
        << >>)

CustomTemplates == {AlignedParallel, AlignedSequential}

\* the (intent_type, template_name) arguments of create_workflow
CreateCalls ==
    {<<"fraud_detection", None>>,
     <<"customer_verification", None>>,
     <<"transaction_monitoring", None>>,
     <<"unknown_intent", None>>,
     <<"fraud_detection", Some("transaction_monitoring")>>,
     <<"fraud_detection", Some("aligned_parallel")>>,
     <<"customer_verification", Some("aligned_sequential")>>,
     <<"fraud_detection", Some("no_such_template")>>}

\* the ids execute_workflow is called with
WorkflowId == "wf-1"
WorkflowIds == {WorkflowId, "wf-unknown"}

\* risk_score fields of the maps execute_capability returns
RiskScores == {80, 90}

\* the risk_score field of the map an agent returns for a capability (only
\* the fraud_detection results' field is read)
RiskScoresOf(capability_type) ==
    IF capability_type = "fraud_detection" THEN RiskScores ELSE {0}

InitOrch ==
    /\ ws = NewWorkflowState("none")
    /\ last_fail = NoCall
    /\ registry \in RegistryScenarios
    /\ now = 0
    /\ reg_call = NoRegCall
    /\ index_order \in IterationOrders(registry)
    /\ IdleOrch

\* template_manager.create_custom_template(template)
CreateCustomTemplate(template) ==
    /\ active_workflows = {}
    /\ exec.create = "none"
    /\ Len(templates) = Len(DefaultTemplates)
    /\ templates' = create_custom_template(templates, template)
    /\ UNCHANGED <<stateVars, regVars, active_workflows, graph, exec, superstep,
                   node_runs, agg_seen>>

\* the nodes of a graph that no edge and no route leads to
Unreachable(g) ==
    {n \in g.nodes \ {"start"} :
        /\ ~\E m \in g.nodes : <<m, n>> \in g.edges
        /\ ~\E r \in DOMAIN g.route : g.route[r] = n}

\* create_workflow(intent_id, intent_type, input_data, template_name);
\* workflow.compile() belongs to the graph library: a library release that
\* validates the graph (strict) rejects one with unreachable nodes
CreateWorkflow(intent_type, template_name, iteration, strict) ==
    /\ active_workflows = {}
    /\ exec.create = "none"
    /\ exec.pc = "idle"
    /\ LET template == IF template_name # None
                       THEN get_template(templates, template_name[1])
                       ELSE get_template_for_intent(templates, intent_type)
       IN  IF template = None
              \/ (strict /\ Unreachable(build_workflow_graph(template[1])) # {})
           THEN \* raise ValueError
                /\ exec' = [exec EXCEPT !.create = "raised", !.intent_type = intent_type,
                                        !.template_name = template_name]
                /\ UNCHANGED <<ws, active_workflows, graph>>
           ELSE /\ ws' = select_agents_for_workflow(NewWorkflowState(intent_type),
                                                    template[1], registry, iteration)
                /\ graph' = build_workflow_graph(template[1])
                /\ active_workflows' = {WorkflowId}
                /\ exec' = [exec EXCEPT !.create = "created", !.intent_type = intent_type,
                                        !.template_name = template_name]
    /\ UNCHANGED <<last_fail, regVars, templates, superstep, node_runs, agg_seen>>

\* execute_workflow(workflow_id): the lookup and start_workflow
ExecuteWorkflow(workflow_id) ==
    /\ exec.pc = "idle"
    /\ IF workflow_id \notin active_workflows
       THEN \* raise ValueError("Workflow not found ...")
            /\ exec' = [exec EXCEPT !.pc = "done", !.workflow_id = workflow_id,
                                    !.outcome = "raised"]
            /\ UNCHANGED <<ws, superstep>>
       ELSE /\ ws' = start_workflow(ws)
            /\ superstep' = [n \in {"start"} |-> [phase |-> "ready", agent_id |-> "none"]]
            /\ exec' = [exec EXCEPT !.pc = "streaming", !.workflow_id = workflow_id]
    /\ UNCHANGED <<last_fail, regVars, templates, active_workflows, graph, node_runs, agg_seen>>

Ready(node) == node \in DOMAIN superstep /\ superstep[node].phase = "ready"
Awaiting(node) == node \in DOMAIN superstep /\ superstep[node].phase = "awaiting"
Streaming == exec.pc = "streaming"

SetPhase(node, phase, agent_id) ==
    superstep' = [superstep EXCEPT ![node] = [phase |-> phase, agent_id |-> agent_id]]

Started(node) == [node_runs EXCEPT !.started = @ \cup {node}]
Finished(runs, node) == [runs EXCEPT !.finished = @ \cup {node}]

IsStepNode(node) == \E i \in 1..Len(graph.steps) : graph.steps[i].step_id = node

IsDecisionNode(node) ==
    \E i \in 1..Len(graph.decisions) : graph.decisions[i].decision_id = node

\* _start_node and _end_node, which write the context only, and decision_node
RunPlainNode(node) ==
    /\ Streaming
    /\ node \in {"start", "end"} \/ IsDecisionNode(node)
    /\ Ready(node)
    /\ ws' = IF IsDecisionNode(node)
             THEN decision_node(ws, node, DecisionOf(graph, node))
             ELSE ws
    /\ SetPhase(node, "done", "none")
    /\ node_runs' = Finished(Started(node), node)
    /\ UNCHANGED <<last_fail, regVars, templates, active_workflows, graph, exec, agg_seen>>

\* agent_node up to the await of the agent's execute_capability
BeginAgentNode(node) ==
    /\ Streaming
    /\ IsStepNode(node)
    /\ Ready(node)
    /\ LET started == start_step(ws, node)
           capability_type == ConfigOf(graph, node).capability_type
           agent_id == Get(started.selected_agents, capability_type, "none")
       IN  IF agent_id = "none" \/ get_agent(registry, agent_id) = None
           THEN \* raise ValueError, caught by agent_node
                /\ ws' = fail_step(started, node, "error", TRUE)
                /\ SetPhase(node, "done", "none")
                /\ node_runs' = Finished(Started(node), node)
           ELSE /\ ws' = started
                /\ SetPhase(node, "awaiting", agent_id)
                /\ node_runs' = Started(node)
    /\ UNCHANGED <<last_fail, regVars, templates, active_workflows, graph, exec, agg_seen>>

\* the risk_score a fraud_detection agent call returned
FraudRisk(node, risk_score) ==
    IF ConfigOf(graph, node).capability_type = "fraud_detection" THEN {risk_score} ELSE {}

\* agent_node after the await: execute_capability returned a result map
AgentReturns(node, risk_score) ==
    /\ Streaming
    /\ Awaiting(node)
    /\ risk_score \in RiskScoresOf(ConfigOf(graph, node).capability_type)
    /\ ws' = complete_step(ws, node,
                 AgentResult(superstep[node].agent_id,
                             ConfigOf(graph, node).capability_type, risk_score))
    /\ SetPhase(node, "done", superstep[node].agent_id)
    /\ node_runs' = Finished([node_runs EXCEPT
                                  !.succeeded = @ \cup {node},
                                  !.fraud_risks = @ \cup FraudRisk(node, risk_score)], node)
    /\ UNCHANGED <<last_fail, regVars, templates, active_workflows, graph, exec, agg_seen>>

\* agent_node after the await: execute_capability raised
AgentRaises(node) ==
    /\ Streaming
    /\ Awaiting(node)
    /\ ws' = fail_step(ws, node, "error", TRUE)
    /\ SetPhase(node, "done", superstep[node].agent_id)
    /\ node_runs' = Finished([node_runs EXCEPT !.raised = @ \cup {node}], node)
    /\ UNCHANGED <<last_fail, regVars, templates, active_workflows, graph, exec, agg_seen>>

\* _aggregate_results_node
RunAggregateNode ==
    /\ Streaming
    /\ Ready("aggregate")
    /\ ws' = aggregate_results_node(ws)
    /\ SetPhase("aggregate", "done", "none")
    /\ node_runs' = Finished(Started("aggregate"), "aggregate")
    /\ agg_seen' = Append(agg_seen, {n \in node_runs.finished : IsStepNode(n)})
    /\ UNCHANGED <<last_fail, regVars, templates, active_workflows, graph, exec>>

AllDone == \A n \in DOMAIN superstep : superstep[n].phase = "done"

\* workflow_graph.astream: the next graph step
NextSuperstep ==
    /\ Streaming
    /\ AllDone
    /\ LET next == Successors(graph, ws, DOMAIN superstep) IN
       /\ next # {}
       /\ superstep' = [n \in next |-> [phase |-> "ready", agent_id |-> "none"]]
    /\ UNCHANGED <<stateVars, regVars, templates, active_workflows, graph, exec,
                   node_runs, agg_seen>>

\* execute_workflow after the stream's end: complete_workflow and the results
FinishExecute ==
    /\ Streaming
    /\ AllDone
    /\ Successors(graph, ws, DOMAIN superstep) = {}
    /\ ws' = IF ws.status = "running" THEN complete_workflow(ws) ELSE ws
    /\ exec' = [exec EXCEPT !.pc = "done", !.outcome = "returned",
                            !.result = Some(get_aggregated_results(ws'))]
    /\ UNCHANGED <<last_fail, regVars, templates, active_workflows, graph, superstep,
                   node_runs, agg_seen>>

\* execute_workflow's except branch: the graph engine raised at a graph step
StreamRaises ==
    /\ Streaming
    /\ AllDone
    /\ ws' = fail_workflow(ws, "engine")
    /\ exec' = [exec EXCEPT !.pc = "done", !.outcome = "returned", !.escaped = TRUE,
                            !.result = Some(get_aggregated_results(ws'))]
    /\ UNCHANGED <<last_fail, regVars, templates, active_workflows, graph, superstep,
                   node_runs, agg_seen>>

\* cancel_workflow(workflow_id); at_cancel keeps the WorkflowState as the call
\* left it, cancel_pc where execute_workflow stood
CancelWorkflow(workflow_id) ==
    /\ exec.cancel = "none"
    /\ exec.create # "none"
    /\ IF workflow_id \notin active_workflows
       THEN /\ exec' = [exec EXCEPT !.cancel = "false"]
            /\ UNCHANGED ws
       ELSE /\ ws' = [ws EXCEPT !.status = "cancelled"]
            /\ exec' = [exec EXCEPT !.cancel = "true", !.cancel_pc = exec.pc,
                                    !.at_cancel = Some(ws')]
    /\ UNCHANGED <<last_fail, regVars, templates, active_workflows, graph, superstep,
                   node_runs, agg_seen>>

NextOrch ==
    \/ \E template \in CustomTemplates : CreateCustomTemplate(template)
    \/ \E call \in CreateCalls, strict \in BOOLEAN :
           CreateWorkflow(call[1], call[2], index_order, strict)
    \/ \E workflow_id \in WorkflowIds : ExecuteWorkflow(workflow_id)
    \/ \E node \in DOMAIN superstep : RunPlainNode(node)
    \/ \E node \in DOMAIN superstep : BeginAgentNode(node)
    \/ \E node \in DOMAIN superstep, risk_score \in RiskScores \cup {0} :
           AgentReturns(node, risk_score)
    \/ \E node \in DOMAIN superstep : AgentRaises(node)
    \/ RunAggregateNode
    \/ NextSuperstep
    \/ FinishExecute
    \/ StreamRaises
    \/ CancelWorkflow(WorkflowId)

SpecOrch == InitOrch /\ [][NextOrch]_vars

-----------------------------------------------------------------------------
(* Direct use of a ResourceRegistry: agents register, send heartbeats and   *)
(* leave, callers look agents up and run the health check, time passes.     *)

\* the clock runs long enough for a heartbeat to be older than the timeout
MaxClock == HeartbeatTimeout + 1

AgentIds == {"agent-a", "agent-b"}

FraudCapability == AgentCapability("fraud_detection", 90, 2000, {"customer_id"}, 5)
KycCapability ==
    AgentCapability("kyc_verification", 92, 5000, {"customer_id", "identity_documents"}, 10)

\* the resources that are registered: agent_id and capabilities list
RegisterChoices ==
    {<<"agent-a", << >>>>,
     <<"agent-a", <<FraudCapability>>>>,
     <<"agent-a", <<FraudCapability, KycCapability>>>>,
     <<"agent-b", <<FraudCapability>>>>}

\* the statuses update_agent_status is called with
StatusChoices == {"available", "busy"}

\* the heartbeats that are sent: agent_id and performance_metrics (heartbeats
\* that carry metrics are explored apart, under SpecHist)
HeartbeatChoices == {<<"agent-a", None>>, <<"agent-b", None>>}

\* a requirements dict: an absent key is its default (None, 0.0, [])
Requirements(min_confidence, max_response_time, max_cost, required_data) ==
    [min_confidence    |-> min_confidence,
     max_response_time |-> max_response_time,
     max_cost          |-> max_cost,
     required_data     |-> required_data]

\* the requirements find_agents_by_capability is called with
RequirementChoices ==
    {Requirements(0, None, None, {}),
     Requirements(91, None, None, {}),
     Requirements(0, Some(0), None, {}),
     Requirements(0, None, Some(0), {}),
     Requirements(0, None, None, {"identity_documents"})}

\* the calls of find_agents_by_capability: capability_type and requirements
QueryChoices ==
    {<<"fraud_detection", r>> : r \in RequirementChoices}
        \cup {<<"kyc_verification", Requirements(0, None, None, {})>>}

InitReg ==
    /\ ws = NewWorkflowState("none")
    /\ last_fail = NoCall
    /\ registry = NewRegistry
    /\ now = 0
    /\ reg_call = NoRegCall
    /\ index_order \in IterationOrders(registry)
    /\ IdleOrch

\* a second passes
Tick ==
    /\ now < MaxClock
    /\ now' = now + 1
    /\ UNCHANGED <<registry, reg_call, index_order, stateVars, orchVars>>

\* registry.register_agent(AgentResource(agent_id, capabilities, ...))
RegisterAgent(agent_id, capabilities) ==
    LET agent == AgentResource(agent_id, capabilities, "available", EmptyMap) IN
    /\ registry' = register_agent(registry, agent, now)
    /\ reg_call' = [op |-> "register_agent", agent_id |-> agent_id,
                    result |-> register_agent_returns(registry, agent)]
    /\ index_order' \in OrdersAfter(registry, index_order, registry')
    /\ UNCHANGED <<now, stateVars, orchVars>>

\* registry.unregister_agent(agent_id)
UnregisterAgent(agent_id) ==
    /\ registry' = unregister_agent(registry, agent_id)
    /\ reg_call' = [op |-> "unregister_agent", agent_id |-> agent_id,
                    result |-> unregister_agent_returns(registry, agent_id)]
    /\ index_order' \in OrdersAfter(registry, index_order, registry')
    /\ UNCHANGED <<now, stateVars, orchVars>>

\* registry.update_agent_status(agent_id, status)
UpdateAgentStatus(agent_id, status) ==
    /\ registry' = update_agent_status(registry, agent_id, status)
    /\ reg_call' = [op |-> "update_agent_status", agent_id |-> agent_id,
                    result |-> update_agent_status_returns(registry, agent_id)]
    /\ UNCHANGED <<now, index_order, stateVars, orchVars>>

\* registry.heartbeat(agent_id, performance_metrics)
Heartbeat(agent_id, performance_metrics) ==
    /\ registry' = heartbeat(registry, agent_id, performance_metrics, now)
    /\ reg_call' = [op |-> "heartbeat", agent_id |-> agent_id,
                    performance_metrics |-> performance_metrics,
                    result |-> heartbeat_returns(registry, agent_id)]
    /\ UNCHANGED <<now, index_order, stateVars, orchVars>>

\* registry.check_agent_health()
CheckAgentHealth ==
    /\ registry' = check_agent_health(registry, now)
    /\ reg_call' = [op |-> "check_agent_health", result |-> health_report(registry, now)]
    /\ UNCHANGED <<now, index_order, stateVars, orchVars>>

\* the agent_ids of a list of agents
IdsOf(agents) == [i \in 1..Len(agents) |-> agents[i].agent_id]

\* registry.find_agents_by_capability(capability_type, requirements)
FindAgents(capability_type, requirements) ==
    /\ reg_call' = [op |-> "find_agents_by_capability",
                    capability_type |-> capability_type,
                    requirements |-> requirements,
                    result |-> IdsOf(find_agents_by_capability(registry, capability_type,
                                         requirements, index_order[capability_type]))]
    /\ UNCHANGED <<registry, now, index_order, stateVars, orchVars>>

\* registry.get_agent(agent_id)
GetAgent(agent_id) ==
    /\ reg_call' = [op |-> "get_agent", agent_id |-> agent_id,
                    result |-> get_agent(registry, agent_id)]
    /\ UNCHANGED <<registry, now, index_order, stateVars, orchVars>>

\* registry.get_performance_metrics(agent_id)
GetPerformanceMetrics(agent_id) ==
    /\ reg_call' = [op |-> "get_performance_metrics", agent_id |-> agent_id,
                    result |-> get_performance_metrics(registry, agent_id)]
    /\ UNCHANGED <<registry, now, index_order, stateVars, orchVars>>

\* registry.get_capability_summary()
GetCapabilitySummary ==
    /\ reg_call' = [op |-> "get_capability_summary",
                    result |-> get_capability_summary(registry)]
    /\ UNCHANGED <<registry, now, index_order, stateVars, orchVars>>

\* registry.export_registry_state()
ExportRegistryState ==
    /\ registry' = export_registry_state(registry, now)
    /\ reg_call' = [op |-> "export_registry_state",
                    result |-> export_registry_state_returns(registry, now)]
    /\ UNCHANGED <<now, index_order, stateVars, orchVars>>

\* priorities of the requirements explored
MaxPriority == 2

\* a requirement with defaults for everything but type and priority
PlainRequirement(capability_type, priority) ==
    CapabilityRequirement(capability_type, 0, None, None, {}, << >>, {}, priority)

\* the calls of find_best_agents: requirements, strategy, max_agents
MatchCalls ==
    {<<<<PlainRequirement("fraud_detection", 1)>>, "best_performance", 5>>,
     <<<<PlainRequirement("fraud_detection", MaxPriority)>>, "load_balanced", 5>>,
     <<<<PlainRequirement("fraud_detection", 1),
        PlainRequirement("kyc_verification", MaxPriority)>>, "lowest_cost", 1>>}

\* matcher.find_best_agents(requirements, strategy, max_agents)
FindBestAgents(requirements, strategy, max_agents) ==
    /\ reg_call' = [op |-> "find_best_agents",
                    call |-> <<requirements, strategy, max_agents>>,
                    result |-> find_best_agents(registry, requirements, strategy,
                                                max_agents, index_order)]
    /\ UNCHANGED <<registry, now, index_order, stateVars, orchVars>>

NextReg ==
    \/ Tick
    \/ \E r \in RegisterChoices : RegisterAgent(r[1], r[2])
    \/ \E agent_id \in AgentIds : UnregisterAgent(agent_id)
    \/ \E agent_id \in AgentIds, status \in StatusChoices :
           UpdateAgentStatus(agent_id, status)
    \/ \E h \in HeartbeatChoices : Heartbeat(h[1], h[2])
    \/ CheckAgentHealth
    \/ \E q \in QueryChoices : FindAgents(q[1], q[2])
    \/ \E agent_id \in AgentIds : GetAgent(agent_id)
    \/ \E agent_id \in AgentIds : GetPerformanceMetrics(agent_id)
    \/ GetCapabilitySummary
    \/ ExportRegistryState
    \/ \E call \in MatchCalls : FindBestAgents(call[1], call[2], call[3])

SpecReg == InitReg /\ [][NextReg]_vars

-----------------------------------------------------------------------------
(* One agent reporting its load: it sends a heartbeat with metrics every     *)
(* second, and heartbeats without metrics in between, for longer than its    *)
(* performance history is kept.                                              *)

\* the agent sends metrics two times more than its history holds
MaxMetricBeats == HistoryLimit + 2

ReportingAgent == "agent-a"

\* the performance_metrics of a heartbeat that carries metrics
LoadMetrics == [current_load |-> 90]

\* the performance_metrics of a heartbeat that carries none: None and {}
NoMetricsChoices == {None, Some(EmptyMap)}

InitHist ==
    /\ ws = NewWorkflowState("none")
    /\ last_fail = NoCall
    /\ registry = register_agent(NewRegistry,
                      AgentResource(ReportingAgent, <<FraudCapability>>, "available",
                                    EmptyMap), 0)
    /\ now = 0
    /\ reg_call = NoRegCall
    /\ index_order \in IterationOrders(registry)
    /\ IdleOrch

\* a second passes and registry.heartbeat(agent_id, performance_metrics) is called
HeartbeatNextSecond(agent_id, performance_metrics) ==
    /\ now < MaxMetricBeats
    /\ now' = now + 1
    /\ registry' = heartbeat(registry, agent_id, performance_metrics, now')
    /\ reg_call' = [op |-> "heartbeat", agent_id |-> agent_id,
                    performance_metrics |-> performance_metrics,
                    result |-> heartbeat_returns(registry, agent_id)]
    /\ UNCHANGED <<index_order, stateVars, orchVars>>

NextHist ==
    \/ HeartbeatNextSecond(ReportingAgent, Some(LoadMetrics))
    \/ \E performance_metrics \in NoMetricsChoices :
           Heartbeat(ReportingAgent, performance_metrics)
    \/ GetPerformanceMetrics(ReportingAgent)

SpecHist == InitHist /\ [][NextHist]_vars

-----------------------------------------------------------------------------
(* Claims about the WorkflowState step machine, under SpecState *)

\* the step the last call failed, when that call was fail_step(.., should_retry=True)
RetriedStep ==
    IF last_fail.should_retry /\ last_fail.step_id \in DOMAIN ws.steps
    THEN {last_fail.step_id} ELSE {}

\* C4: no step is RUNNING while one of its declared dependencies (that is a
\* step of the workflow) has a status other than COMPLETED.
C4_RunningOnlyAfterDependencies ==
    \A s \in DOMAIN ws.steps :
        ws.steps[s].status = "running" =>
            \A d \in ws.steps[s].dependencies :
                d \in DOMAIN ws.steps => ws.steps[d].status = "completed"

\* C5 as claimed: right after the max_retries-th fail_step call on a step the
\* step is FAILED, and after the (max_retries+1)-th call it is not PENDING.
C5_FailedAfterMaxRetriesCalls ==
    \A s \in RetriedStep :
        /\ ws.steps[s].retry_count = ws.steps[s].max_retries =>
               ws.steps[s].status = "failed"
        /\ ws.steps[s].retry_count = ws.steps[s].max_retries + 1 =>
               ws.steps[s].status # "pending"

\* C5 as amended: right after the k-th fail_step call (should_retry true) on
\* a step the step is PENDING again when k <= max_retries, the max_retries-th
\* call included, and FAILED when k > max_retries: the (max_retries+1)-th
\* call is the one that fails it for good.
C5_FailedAfterMaxRetriesPlusOneCalls ==
    \A s \in RetriedStep :
        /\ ws.steps[s].retry_count <= ws.steps[s].max_retries =>
               ws.steps[s].status = "pending"
        /\ ws.steps[s].retry_count > ws.steps[s].max_retries =>
               ws.steps[s].status = "failed"

\* C5's case: a step with retries to use that fail_step has just failed for
\* the (max_retries+1)-th time
C5_Witness ==
    \E s \in RetriedStep :
        /\ ws.steps[s].max_retries >= 1
        /\ ws.steps[s].retry_count = ws.steps[s].max_retries + 1
        /\ ws.steps[s].status = "failed"

-----------------------------------------------------------------------------
(* Claims about the orchestrator, under SpecOrch *)

\* the agents of the registry that pass a template step's min_confidence
\* and max_response_time filter
EligibleFor(reg, config) ==
    {a \in DOMAIN reg.agents :
        LET cap == first_capability(reg.agents[a].capabilities, config.capability_type, 1)
        IN  /\ cap # None
            /\ cap[1].confidence_level >= config.min_confidence
            /\ cap[1].response_time_sla <= config.max_response_time}

Created == exec.create = "created"
Returned == exec.pc = "done" /\ exec.outcome = "returned"
StreamEnded == Returned /\ ws.status = "completed"
GraphStepIds == Range(StepNodes(graph))

\* C1: for a parallel fraud_detection workflow with exactly one eligible
\* agent per template capability, when every agent call succeeded and
\* execute_workflow has returned, every step is COMPLETED with its result
\* stored and steps_completed is the number of template steps.
C1_AllStepsCompleted ==
    ( /\ StreamEnded
      /\ graph.flow_type = "parallel"
      /\ ws.intent_type = "fraud_detection"
      /\ \A i \in 1..Len(graph.steps) :
             Cardinality(EligibleFor(registry, graph.steps[i])) = 1
      /\ node_runs.succeeded = GraphStepIds )
    => /\ \A s \in DOMAIN ws.steps :
              ws.steps[s].status = "completed" /\ ws.steps[s].result # None
       /\ steps_completed(ws) = Len(graph.steps)
       /\ exec.result[1].steps_completed = Len(graph.steps)

\* C2: after create_workflow, the agent selected for a capability (and the
\* agent of its step) has the highest match_score of the matches that
\* find_best_agents returned for that capability.
C2_BestAgentSelected ==
    Created =>
        \A iteration \in IterationOrders(registry) :
            LET matches == find_best_agents(registry, requirements_from(graph.steps, 1),
                               "best_performance", MaxAgentsPerWorkflow, iteration)
                For(c) == {i \in 1..Len(matches) : matches[i].capability_type = c}
            IN  \A c \in DOMAIN ws.selected_agents :
                    /\ ws.steps[StepIdFor(c)].agent_id = ws.selected_agents[c]
                    /\ \E j \in For(c) :
                           /\ matches[j].agent_id = ws.selected_agents[c]
                           /\ \A i \in For(c) : matches[i].match_score <= matches[j].match_score

\* C3: after create_workflow, every capability of a template step that some
\* registered agent is eligible for has an entry in selected_agents and
\* exactly one WorkflowStep.
C3_EveryEligibleCapabilityAssigned ==
    Created =>
        \A i \in 1..Len(graph.steps) :
            LET c == graph.steps[i].capability_type IN
            EligibleFor(registry, graph.steps[i]) # {} =>
                /\ c \in DOMAIN ws.selected_agents
                /\ Cardinality({s \in DOMAIN ws.steps : ws.steps[s].capability_type = c}) = 1

\* C6: when execute_workflow has returned after the graph ran to its end,
\* every step whose agent node was started is COMPLETED or FAILED.
C6_StartedStepsTerminated ==
    StreamEnded =>
        \A s \in DOMAIN ws.steps :
            s \in node_runs.started => ws.steps[s].status \in {"completed", "failed"}

\* C7: in a parallel workflow every execution of the aggregation node comes
\* after all step nodes have returned.
C7_AggregateAfterAllStepNodes ==
    graph.flow_type = "parallel" =>
        \A i \in 1..Len(agg_seen) : agg_seen[i] = GraphStepIds

\* C8: in a sequential workflow whose steps carry the template's step ids,
\* the node of step i+1 is started only once step i was started and is
\* COMPLETED.
C8_NextStepOnlyAfterCompleted ==
    ( /\ graph.flow_type = "sequential"
      /\ GraphStepIds \subseteq DOMAIN ws.steps )
    => \A i \in 1..(Len(graph.steps) - 1) :
           graph.steps[i + 1].step_id \in node_runs.started =>
               /\ graph.steps[i].step_id \in node_runs.finished
               /\ ws.steps[graph.steps[i].step_id].status = "completed"

\* C9: when a conditional workflow has run to its end, every template step
\* was executed and the aggregation and end nodes were reached.
C9_ConditionalRunsAllSteps ==
    (StreamEnded /\ graph.flow_type = "conditional") =>
        /\ GraphStepIds \subseteq node_runs.finished
        /\ {"aggregate", "end"} \subseteq node_runs.finished

\* C10: execute_workflow never raises to its caller: whenever it is over, it
\* has returned a result map with a status field.
C10_ExecuteNeverRaises ==
    exec.pc = "done" =>
        /\ exec.outcome = "returned"
        /\ exec.result # None
        /\ exec.result[1].status \in {"completed", "failed"}

\* the status in the result map execute_workflow returned
ReportedStatus == exec.result[1].status
\* execute_workflow caught an exception that escaped the graph's nodes
Escaped == Returned /\ exec.escaped
CancelledInFlight == exec.cancel = "true" /\ exec.cancel_pc = "streaming"

TemplateResolvable ==
    IF exec.template_name # None
    THEN \E i \in 1..Len(templates) : templates[i].name = exec.template_name[1]
    ELSE \E i \in 1..Len(templates) : exec.intent_type \in templates[i].intent_types

\* C12: a create_workflow call with an intent_type that no template lists
\* (and no template_name), or with a template_name that names no template,
\* raises and adds no entry to active_workflows.
C12_UnresolvedTemplateRaises ==
    (exec.create # "none" /\ ~TemplateResolvable) =>
        /\ exec.create = "raised"
        /\ active_workflows = {}

TerminalStatuses == {"completed", "failed", "cancelled"}

\* C13: once the workflow's status is COMPLETED, FAILED or CANCELLED, no
\* step of the orchestrator (execute_workflow, cancel_workflow and the
\* start_workflow, complete_workflow and fail_workflow calls they make)
\* changes it.
C13_TerminalStatusNeverChanges ==
    [][ws.status \in TerminalStatuses => ws'.status = ws.status]_vars

\* the status of every step of a WorkflowState
StepStatuses(w) == [s \in DOMAIN w.steps |-> w.steps[s].status]

\* C14: after cancel_workflow returned True while execute_workflow was in
\* flight, the step statuses, the agent_results and the risk_score stay as
\* the cancellation left them, and the status execute_workflow reports is
\* CANCELLED (runs in which no exception escapes the graph's nodes).
C14_CancelledWorkflowNotAdvanced ==
    (CancelledInFlight /\ ~exec.escaped) =>
        /\ StepStatuses(ws) = StepStatuses(exec.at_cancel[1])
        /\ ws.agent_results = exec.at_cancel[1].agent_results
        /\ ws.risk_score = exec.at_cancel[1].risk_score
        /\ Returned => ReportedStatus = "cancelled"

\* the largest risk_score a completed fraud_detection agent call returned
\* (0 when there was none)
MaxFraudRisk == IF node_runs.fraud_risks = {} THEN 0 ELSE MaxOf(node_runs.fraud_risks)

\* C15: when execute_workflow of a fraud_detection workflow has returned
\* (no exception escaped), the reported risk_score is the largest risk_score
\* of the completed fraud_detection agent calls, and the recommended action
\* is block_transaction above 0.8, manual_review in (0.6, 0.8] and
\* allow_transaction otherwise.
C15_RiskScoreIsMaxFraudRisk ==
    (Returned /\ ~exec.escaped /\ ws.intent_type = "fraud_detection") =>
        /\ exec.result[1].risk_score = MaxFraudRisk
        /\ exec.result[1].final_recommendation =
               IF MaxFraudRisk * 10 > 8 * RiskUnit THEN "block_transaction"
               ELSE IF MaxFraudRisk * 10 > 6 * RiskUnit THEN "manual_review"
               ELSE "allow_transaction"


-----------------------------------------------------------------------------
(* Claims about the ResourceRegistry, under SpecReg *)

\* the last call was find_agents_by_capability and it returned this agent
Found(agent_id) ==
    /\ reg_call.op = "find_agents_by_capability"
    /\ \E i \in DOMAIN reg_call.result : reg_call.result[i] = agent_id

\* the capability satisfies every requirement that is present, 0 included
SatisfiesPresent(capability, requirements) ==
    /\ capability.confidence_level >= requirements.min_confidence
    /\ requirements.max_response_time # None =>
           capability.response_time_sla <= requirements.max_response_time[1]
    /\ requirements.max_cost # None =>
           capability.cost_per_request <= requirements.max_cost[1]
    /\ requirements.required_data \subseteq capability.data_requirements

\* C16: find_agents_by_capability(type, requirements) returns a registered
\* agent if and only if its status is available or busy, it has a capability of
\* that type, and that capability satisfies every requirement that is present
\* (value not None, the value 0 included).
C16_FoundIffStatusCapabilityRequirements ==
    reg_call.op = "find_agents_by_capability" =>
        \A agent_id \in DOMAIN registry.agents :
            LET agent == registry.agents[agent_id]
                cap == first_capability(agent.capabilities, reg_call.capability_type, 1)
            IN  Found(agent_id) <=>
                    /\ agent.status \in {"available", "busy"}
                    /\ cap # None
                    /\ SatisfiesPresent(cap[1], reg_call.requirements)

\* find_agents_by_capability returns the agent for some call, in some order
Findable(reg, agent_id) ==
    \E q \in QueryChoices : \E iteration \in Orders(reg.capability_index[q[1]]) :
        \E i \in 1..Len(find_agents_by_capability(reg, q[1], q[2], iteration)) :
            find_agents_by_capability(reg, q[1], q[2], iteration)[i].agent_id = agent_id

\* C17: after register_agent(a) followed by unregister_agent(a.agent_id) the
\* agent is in no capability index and not in the agents map,
\* find_agents_by_capability returns it for no capability type, get_agent
\* returns None and a second unregister_agent returns False.
C17_UnregisteredAgentIsGone ==
    (reg_call.op = "unregister_agent" /\ reg_call.result) =>
        /\ \A c \in CapabilityTypes : reg_call.agent_id \notin registry.capability_index[c]
        /\ reg_call.agent_id \notin DOMAIN registry.agents
        /\ ~Findable(registry, reg_call.agent_id)
        /\ get_agent(registry, reg_call.agent_id) = None
        /\ ~unregister_agent_returns(registry, reg_call.agent_id)

\* the age of the agent's last heartbeat
HeartbeatAge(agent) == now - agent.last_heartbeat

\* C18: check_agent_health marks an agent OFFLINE and reports it unhealthy
\* exactly when now - last_heartbeat > heartbeat_timeout; every other agent is
\* reported healthy and keeps its status (an age equal to the timeout is healthy).
C18_OfflineExactlyWhenOlderThanTimeout ==
    [][CheckAgentHealth =>
          \A agent_id \in DOMAIN registry.agents :
              IF HeartbeatAge(registry.agents[agent_id]) > registry.heartbeat_timeout
              THEN /\ registry'.agents[agent_id].status = "offline"
                   /\ reg_call'.result.agents[agent_id] = "unhealthy"
              ELSE /\ registry'.agents[agent_id].status = registry.agents[agent_id].status
                   /\ reg_call'.result.agents[agent_id] = "healthy"]_vars

\* the agent is registered and OFFLINE
Offline(reg, agent_id) ==
    agent_id \in DOMAIN reg.agents /\ reg.agents[agent_id].status = "offline"

\* check_agent_health sets every agent OFFLINE whose last heartbeat is
\* heartbeat_timeout seconds old or older
CheckSetsOffline ==
    CheckAgentHealth =>
        \A agent_id \in DOMAIN registry.agents :
            HeartbeatAge(registry.agents[agent_id]) >= registry.heartbeat_timeout
                => Offline(registry', agent_id)

\* find_agents_by_capability returns no agent that is OFFLINE
OfflineNeverFound ==
    \A agent_id \in DOMAIN registry.agents :
        Offline(registry, agent_id) => ~Found(agent_id)

\* a heartbeat of the agent or an update_agent_status call for it
HeartbeatOrUpdate(agent_id) ==
    \/ \E h \in HeartbeatChoices : h[1] = agent_id /\ Heartbeat(h[1], h[2])
    \/ \E status \in StatusChoices : UpdateAgentStatus(agent_id, status)

\* a register_agent call with the agent's id
Reregistered(agent_id) ==
    \E r \in RegisterChoices : r[1] = agent_id /\ RegisterAgent(r[1], r[2])

\* C19 as stated: an agent without a heartbeat for heartbeat_timeout seconds is
\* set OFFLINE by the next check_agent_health, and find_agents_by_capability
\* does not return it until a heartbeat or an update_agent_status call.
C19_OfflineUntilHeartbeatOrUpdate ==
    /\ [][CheckSetsOffline]_vars
    /\ []OfflineNeverFound
    /\ [][\A agent_id \in AgentIds :
             (Offline(registry, agent_id) /\ ~HeartbeatOrUpdate(agent_id))
                 => ~Findable(registry', agent_id)]_vars

\* C19 amended: an agent without a heartbeat for heartbeat_timeout seconds is
\* set OFFLINE by the next check_agent_health, and find_agents_by_capability
\* does not return it until a heartbeat, an update_agent_status call or a
\* register_agent call with its id.
C19_OfflineUntilHeartbeatUpdateOrRegister ==
    /\ [][CheckSetsOffline]_vars
    /\ []OfflineNeverFound
    /\ [][\A agent_id \in AgentIds :
             (Offline(registry, agent_id) /\ ~HeartbeatOrUpdate(agent_id)
                                          /\ ~Reregistered(agent_id))
                 => ~Findable(registry', agent_id)]_vars

\* an OFFLINE agent whose heartbeat timed out is left out of a call that its
\* capability satisfies
C19_Witness ==
    /\ reg_call.op = "find_agents_by_capability"
    /\ \E agent_id \in DOMAIN registry.agents :
           LET agent == registry.agents[agent_id]
               cap == first_capability(agent.capabilities, reg_call.capability_type, 1)
           IN  /\ Offline(registry, agent_id)
               /\ HeartbeatAge(agent) >= registry.heartbeat_timeout
               /\ cap # None
               /\ matches_requirements(cap[1], reg_call.requirements)
               /\ ~Found(agent_id)

\* C20: register_agent returns False and leaves the agents map, every
\* capability index and the performance history unchanged when the resource
\* has an empty capability list.
C20_EmptyCapabilitiesRejected ==
    [][\A r \in RegisterChoices :
          (r[2] = << >> /\ RegisterAgent(r[1], r[2]))
              => (~reg_call'.result /\ registry' = registry)]_vars


-----------------------------------------------------------------------------
(* Further claims about the WorkflowState step machine, under SpecState *)

\* the resets to PENDING the steps' retry counts and max_retries allow
RECURSIVE RetriesAllowed(_, _)
RetriesAllowed(w, ids) ==
    IF ids = {} THEN 0
    ELSE LET s == CHOOSE x \in ids : TRUE
         IN  Min2(w.steps[s].retry_count, w.steps[s].max_retries)
                 + RetriesAllowed(w, ids \ {s})

\* fail_step on a step: a reset to PENDING exactly when should_retry and the
\* incremented retry_count <= max_retries, FAILED with one more error otherwise
FailStepRetriesOrFails ==
    \A s \in DOMAIN ws.steps, should_retry \in BOOLEAN :
        FailStep(s, should_retry) =>
            LET n == ws.steps[s].retry_count + 1 IN
            /\ ws'.steps[s].retry_count = n
            /\ IF should_retry /\ n <= ws.steps[s].max_retries
               THEN /\ ws'.steps[s].status = "pending"
                    /\ ws'.steps[s].started_at = FALSE
                    /\ ws'.retry_metric = ws.retry_metric + 1
                    /\ ws'.errors = ws.errors
               ELSE /\ ws'.steps[s].status = "failed"
                    /\ Len(ws'.errors) = Len(ws.errors) + 1
                    /\ ws'.retry_metric = ws.retry_metric

\* C24: fail_step increments the step's retry_count and resets the step to
\* PENDING (started_at cleared, retry metric incremented) exactly when
\* should_retry is true and the incremented retry_count <= max_retries; in
\* every other case the step becomes FAILED and one error is appended. Hence
\* the resets to PENDING (the retry metric counts them) never exceed what the
\* steps' max_retries allow.
C24_RetryWithinMaxRetriesElseFailed ==
    /\ [][FailStepRetriesOrFails]_vars
    /\ [](ws.retry_metric <= RetriesAllowed(ws, DOMAIN ws.steps))

\* C24's case: a step has used its last retry (reset to PENDING for the
\* max_retries-th time)
C24_Witness ==
    \E s \in RetriedStep :
        /\ ws.steps[s].max_retries >= 1
        /\ ws.steps[s].retry_count = ws.steps[s].max_retries
        /\ ws.steps[s].status = "pending"
        /\ ws.retry_metric = ws.steps[s].max_retries


\* C25: a step's status changes only from PENDING to RUNNING by start_step,
\* from RUNNING to COMPLETED by complete_step and from RUNNING to PENDING or
\* FAILED by fail_step; a call on a step in another status leaves it unchanged.
C25_StatusOnlyAlongLifecycle ==
    [][\A s \in DOMAIN ws.steps :
          LET old == ws.steps[s].status
              new == ws'.steps[s].status
          IN  old # new =>
                  \/ old = "pending" /\ new = "running" /\ StartStep(s)
                  \/ old = "running" /\ new = "completed" /\ CompleteStep(s)
                  \/ old = "running" /\ new \in {"pending", "failed"}
                         /\ \E should_retry \in BOOLEAN : FailStep(s, should_retry)]_vars

\* the step is PENDING and every declared dependency is a COMPLETED step
ReadyAsDeclared(w, s) ==
    /\ w.steps[s].status = "pending"
    /\ \A d \in w.steps[s].dependencies :
           d \in DOMAIN w.steps /\ w.steps[d].status = "completed"

\* C26: get_next_steps returns, in step_order, exactly the steps that are
\* PENDING and whose every declared dependency is COMPLETED; a step with a
\* dependency that is FAILED or is not a step of the workflow is not returned.
C26_NextStepsExactlyReady ==
    get_next_steps(ws) = SelectSeq(ws.step_order, LAMBDA s : ReadyAsDeclared(ws, s))

\* two steps depend on each other
Cyclic(w) ==
    \E s, t \in DOMAIN w.steps :
        s # t /\ t \in w.steps[s].dependencies /\ s \in w.steps[t].dependencies

\* C29: for every WorkflowState, also one with cyclic or unknown dependencies,
\* get_parallel_steps returns the empty list or exactly one group, which
\* equals get_next_steps(); no step id appears twice.
C29_ParallelStepsIsOneGroup ==
    /\ get_parallel_steps(ws) \in {<< >>, <<get_next_steps(ws)>>}
    /\ get_parallel_steps(ws) = << >> <=> get_next_steps(ws) = << >>
    /\ \A g \in DOMAIN get_parallel_steps(ws) :
           \A i, j \in DOMAIN get_parallel_steps(ws)[g] :
               get_parallel_steps(ws)[g][i] = get_parallel_steps(ws)[g][j] => i = j

\* C29's case: the dependencies form a cycle, one of them names no step, and
\* a step is ready
C29_Witness ==
    /\ Cyclic(ws)
    /\ \E s \in DOMAIN ws.steps : UnknownStep \in ws.steps[s].dependencies
    /\ Len(get_parallel_steps(ws)) = 1
    /\ Len(get_parallel_steps(ws)[1]) >= 1


-----------------------------------------------------------------------------
(* Further claims about the ResourceRegistry and the matcher, under SpecReg *)

MatchScore(agent, capability_type, priority) ==
    create_agent_match(agent, PlainRequirement(capability_type, priority))[1].match_score

\* C22: for an agent and two requirements that differ only in priority, with
\* 1 <= p1 <= p2, the match_score under p2 is >= the match_score under p1.
C22_ScoreMonotoneInPriority ==
    \A a \in DOMAIN registry.agents, c \in CapabilityTypes :
        HasCapability(registry.agents[a], c) =>
            \A p1, p2 \in 1..MaxPriority :
                p1 <= p2 => MatchScore(registry.agents[a], c, p2)
                                >= MatchScore(registry.agents[a], c, p1)

\* C22's case: find_best_agents scored an agent under the highest priority,
\* and the score is strictly above the one under priority 1
C22_Witness ==
    /\ reg_call.op = "find_best_agents"
    /\ \E i \in DOMAIN reg_call.result :
           /\ reg_call.result[i].agent_id \in DOMAIN registry.agents
           /\ reg_call.result[i].match_score =
                  MatchScore(registry.agents[reg_call.result[i].agent_id],
                             reg_call.result[i].capability_type, MaxPriority)
           /\ reg_call.result[i].match_score >
                  MatchScore(registry.agents[reg_call.result[i].agent_id],
                             reg_call.result[i].capability_type, 1)

\* C28: every agent id held in capability_index[c] is a key of the agents map
\* whose agent has a capability of type c, so get_capability_summary and
\* export_registry_state never fail on a missing agent.
C28_IndexHoldsOnlyRegisteredAgents ==
    /\ \A c \in CapabilityTypes : \A agent_id \in registry.capability_index[c] :
           /\ agent_id \in DOMAIN registry.agents
           /\ HasCapability(registry.agents[agent_id], c)
    /\ reg_call.op \in {"get_capability_summary", "export_registry_state"}
           => reg_call.result # KeyError

\* the calls that only read the registry
ReadOnlyCall ==
    \/ reg_call'.op = "find_agents_by_capability"
           /\ \E q \in QueryChoices : FindAgents(q[1], q[2])
    \/ reg_call'.op = "get_agent" /\ \E agent_id \in AgentIds : GetAgent(agent_id)
    \/ reg_call'.op = "get_performance_metrics"
           /\ \E agent_id \in AgentIds : GetPerformanceMetrics(agent_id)
    \/ reg_call'.op = "get_capability_summary" /\ GetCapabilitySummary
    \/ reg_call'.op = "find_best_agents"
           /\ \E call \in MatchCalls : FindBestAgents(call[1], call[2], call[3])

\* the call that changed the status of this agent is one that may
StatusChangedBy(agent_id) ==
    LET old == registry.agents[agent_id].status
        new == registry'.agents[agent_id].status
    IN  \/ reg_call'.op = "register_agent"
               /\ \E r \in RegisterChoices : r[1] = agent_id /\ RegisterAgent(r[1], r[2])
        \/ reg_call'.op = "update_agent_status"
               /\ \E status \in StatusChoices : UpdateAgentStatus(agent_id, status)
        \/ reg_call'.op = "heartbeat"
               /\ \E h \in HeartbeatChoices : h[1] = agent_id /\ Heartbeat(h[1], h[2])
               /\ old = "offline" /\ new = "available"
        \/ reg_call'.op = "check_agent_health" /\ CheckAgentHealth /\ new = "offline"
        \/ reg_call'.op = "export_registry_state" /\ ExportRegistryState /\ new = "offline"

\* C30: an agent's status changes only through register_agent,
\* update_agent_status, heartbeat (only from OFFLINE, to AVAILABLE) and
\* check_agent_health (only to OFFLINE, also inside export_registry_state);
\* find_agents_by_capability, get_agent, get_performance_metrics,
\* get_capability_summary and find_best_agents leave agents, capability
\* indices and performance history unchanged.
C30_StatusChangesOnlyByListedCalls ==
    [][/\ \A agent_id \in (DOMAIN registry.agents) \cap (DOMAIN registry'.agents) :
              registry'.agents[agent_id].status # registry.agents[agent_id].status
                  => StatusChangedBy(agent_id)
       /\ ReadOnlyCall => registry' = registry]_vars

\* C30's case: export_registry_state has set an agent OFFLINE
C30_Witness ==
    /\ reg_call.op = "export_registry_state"
    /\ reg_call.result # KeyError
    /\ \E agent_id \in DOMAIN registry.agents :
           /\ reg_call.result.health_report.agents[agent_id] = "unhealthy"
           /\ registry.agents[agent_id].status = "offline"

-----------------------------------------------------------------------------
(* Claim about the performance history, under SpecHist *)

\* the heartbeat carries metrics (the test of `if performance_metrics:`)
CarriesMetrics(performance_metrics) ==
    performance_metrics # None /\ DOMAIN performance_metrics[1] # {}

\* C27: after any sequence of heartbeat calls for an agent its performance
\* history holds at most 100 entries, the most recent heartbeats that carried
\* metrics in their order of arrival: a heartbeat with metrics puts its entry
\* last, behind the entries that were there, of which only the oldest is
\* dropped and only when there were 100; a heartbeat without metrics leaves the
\* history as it is.
C27_HistoryKeepsMostRecent ==
    [][reg_call'.op = "heartbeat" =>
          LET before == registry.performance_history[ReportingAgent]
              after  == registry'.performance_history[ReportingAgent]
              kept   == IF Len(before) < HistoryLimit THEN Len(before)
                        ELSE HistoryLimit - 1
          IN  /\ Len(after) <= HistoryLimit
              /\ IF CarriesMetrics(reg_call'.performance_metrics)
                 THEN /\ Len(after) = kept + 1
                      /\ after[Len(after)] =
                             [timestamp |-> now',
                              metrics   |-> reg_call'.performance_metrics[1]]
                      /\ \A i \in 1..kept : after[i] = before[Len(before) - kept + i]
                 ELSE after = before]_vars

\* the history is full and its oldest entries have been dropped, after a
\* heartbeat
C27_Witness ==
    LET history == registry.performance_history[ReportingAgent] IN
    /\ reg_call.op = "heartbeat"
    /\ CarriesMetrics(reg_call.performance_metrics)
    /\ Len(history) = HistoryLimit
    /\ history[1].timestamp > 1
    /\ history[HistoryLimit].timestamp = now

-----------------------------------------------------------------------------
(* Claim about the decisions of a template, under SpecOrch *)

\* the records decisions_made holds for a decision_id
DecisionRecords(decision_id) ==
    LET ForDecision(record) == record.decision_point = decision_id
    IN  SelectSeq(ws.decisions_made, ForDecision)

=============================================================================
